---- MODULE Spec2Model ----
(***************************************************************************)
(* rerunner: the resumable pipeline orchestrator of src/__main__.py.       *)
(* One state machine: main()'s position (pc), its locals, the progress     *)
(* file, the files of the output directory, and the remote's history.      *)
(* Subprocess exit codes, checkpoint I/O errors and interruption of the    *)
(* process are inputs chosen by the environment.                           *)
(***************************************************************************)
EXTENDS Integers, Sequences, FiniteSets, TLC

(* ---------------------------------------------------------------- bounds *)
\* calendar dates are the days 0..MaxDate
MaxDate == 2
\* number of times the orchestrator is invoked over the same output directory
MaxRuns == 2
\* number of times a process enters the loop body; a walk between two of the
\* days 0..MaxDate enters it at most MaxDate times
MaxVisits == MaxDate + 1

(* ------------------------------------------------------------- constants *)
\* range(0, 5): the number of test repetitions per commit
NumTests == 5

Dates == 0..MaxDate
\* None as a commit identifier or an output name
None == "None"
NoName == <<>>
\* None as a date, and a start_date/end_date that is no datetime.date
NoDate == 0 - 1
NotADate == 0 - 2
ExitCodes == {0, 1}
\* git reset --hard <sha>: git rejects the empty string as a revision
\* (fatal: ambiguous argument '')
GitResetCodes(sha) == IF sha = "" THEN ExitCodes \ {0} ELSE ExitCodes

(* ------------------------------------------------ the remote's history *)
\* the commit identifier of the last commit made on day d
ShaOf(d) == "c" \o ToString(d)
Shas == {ShaOf(d) : d \in Dates}
\* stdout.strip().strip("'") of an empty stdout
EmptySha == ""

RECURSIVE SetMax(_)
SetMax(S) == LET x == CHOOSE y \in S : TRUE
             IN IF S = {x} THEN x
                ELSE LET m == SetMax(S \ {x}) IN IF x > m THEN x ELSE m

\* stdout of git log --before=<date>T23:59:59 --pretty=format:'%H' -1 :
\* the quoted hash of the most recent commit at or before the date, as a
\* sequence of tokens; nothing at all when there is no such commit (git exits 0)
GitLogStdout(commits, date) ==
    LET upto == {d \in commits : d <= date}
    IN IF upto = {} THEN <<>> ELSE <<"'", ShaOf(SetMax(upto)), "'">>

\* str.strip("'"): drop the leading and trailing quote tokens
RECURSIVE StripQuotes(_)
StripQuotes(s) ==
    IF s = <<>> THEN s
    ELSE IF Head(s) = "'" THEN StripQuotes(Tail(s))
    ELSE IF s[Len(s)] = "'" THEN StripQuotes(SubSeq(s, 1, Len(s) - 1))
    ELSE s

\* the text left after stripping: the hash, or the empty string
Joined(s) == IF s = <<>> THEN EmptySha ELSE s[1]

(* ------------------------------------------------------------ run() *)
\* no exception, and RunException(message, cmd, stdout, stderr, code); the
\* captured streams are named after the command that produced them
NoException ==
    [type |-> "none", cmd |-> "", stdout |-> "", stderr |-> "", code |-> 0]
RunException(cmd, code) ==
    [type |-> "RunException", cmd |-> cmd, stdout |-> "stdout of " \o cmd,
     stderr |-> "stderr of " \o cmd, code |-> code]

\* a variant of run that looks at the exit code first and writes the pair
\* only of a command that exited 0
run_check_first(cmd, files, output_name, code) ==
    [files  |-> IF output_name # NoName /\ code = 0
                THEN files \cup {<<output_name[1], output_name[2], ".out">>,
                                 <<output_name[1], output_name[2], ".err">>}
                ELSE files,
     raised |-> code # 0,
     exception |-> IF code # 0 THEN RunException(cmd, code) ELSE NoException]

\* run(cmd, cwd, output_name): the .out/.err pair is written before the exit
\* code is looked at; a non-zero code raises RunException
run(cmd, files, output_name, code) ==
    [files  |-> IF output_name # NoName
                THEN files \cup {<<output_name[1], output_name[2], ".out">>,
                                 <<output_name[1], output_name[2], ".err">>}
                ELSE files,
     raised |-> code # 0,
     exception |-> IF code # 0 THEN RunException(cmd, code) ELSE NoException]

\* f.name of a RunnableScript with the given prefix: the path of the script
ScriptPath(prefix) == ToString(prefix[1]) \o prefix[2] \o ".sh"

\* a variant of __enter__ that writes the script outside the output directory
RunnableScript_enter_temp(files, prefix) == files

\* RunnableScript.__enter__: the script is written to <prefix>.sh
RunnableScript_enter(files, prefix) ==
    files \cup {<<prefix[1], prefix[2], ".sh">>}

\* a variant of __exit__ that returns True whatever happened in the scope
RunnableScript_exit_swallow(exc_val) == NoException

\* a variant of __exit__ that raises a new exception in place of the one of
\* the scope, without its captured streams
RunnableScript_exit_wrap(exc_val) ==
    IF exc_val.type = "none" THEN NoException
    ELSE [exc_val EXCEPT !.stdout = "", !.stderr = ""]

\* RunnableScript.__exit__(exc_type, exc_val, exc_tb): an exception raised
\* inside the scope is raised again (raise exc_val); nothing is deleted.
\* The result is the exception that leaves the with statement.
RunnableScript_exit(exc_val) ==
    IF exc_val.type # "none" THEN exc_val ELSE NoException

\* configure / build / test: a RunnableScript scope around one run() of
\* runner + [f.name]; inner is what run() raised inside the scope, exception
\* is what reaches the caller
ScriptStage(files, output_name, code) ==
    LET r == run(ScriptPath(output_name),
                 RunnableScript_enter(files, output_name), output_name, code)
        e == RunnableScript_exit(r.exception)
    IN [files |-> r.files, raised |-> e.type # "none", exception |-> e,
        inner |-> r.exception]

\* update(): git reset --hard <sha>, one run() with an output name
update(files, output_name, code) ==
    run("git reset --hard", files, output_name, code)

\* the output basenames of main(), after the date
UpdateName == "_01update"
ConfigName == "_02config"
BuildName == "_03build"
TestName(ti) == "_04test" \o ToString(ti)

(* ------------------------------------------------------ progress.json *)
\* the file is absent, holds text that is not JSON, or holds a dict
EmptyDict == [k \in {} |-> TRUE]
Absent == [kind |-> "absent", data |-> EmptyDict]
Corrupt == [kind |-> "corrupt", data |-> EmptyDict]
Json(data) == [kind |-> "json", data |-> data]
IsDict(file) == file.kind = "json"

\* data.get(sha, False)
DictGet(data, sha) == IF sha \in DOMAIN data THEN data[sha] ELSE FALSE

\* a variant of get_progress that reports every commit as done
get_progress_hit(file, sha) ==
    LET f == IF file.kind = "absent" THEN Json(EmptyDict) ELSE file
    IN [file |-> f, raised |-> ~IsDict(f), value |-> TRUE]

\* a variant of get_progress that never finds the key
get_progress_miss(file, sha) ==
    LET f == IF file.kind = "absent" THEN Json(EmptyDict) ELSE file
    IN [file |-> f, raised |-> ~IsDict(f), value |-> FALSE]

\* get_progress(dir, sha): creates "{}" when the file is absent, then loads it.
\* [file: the file afterwards, raised: json.load failed, value: the result]
get_progress(file, sha) ==
    LET f == IF file.kind = "absent" THEN Json(EmptyDict) ELSE file
    IN IF ~IsDict(f)
       THEN [file |-> f, raised |-> TRUE, value |-> FALSE]
       ELSE [file |-> f, raised |-> FALSE, value |-> DictGet(f.data, sha)]

\* a variant of set_progress that flips the entry of a key it finds
set_progress_toggle(file, sha) ==
    IF ~IsDict(file)
    THEN [file |-> file, raised |-> TRUE]
    ELSE [file |-> Json([k \in DOMAIN file.data \cup {sha} |->
                           IF k = sha THEN sha \notin DOMAIN file.data
                           ELSE file.data[k]]),
          raised |-> FALSE]

\* a variant of set_progress that dumps a fresh dict holding only sha
set_progress_overwrite(file, sha) ==
    IF ~IsDict(file)
    THEN [file |-> file, raised |-> TRUE]
    ELSE [file |-> Json([k \in {sha} |-> TRUE]), raised |-> FALSE]

\* a variant of set_progress that loads and never dumps
set_progress_no_dump(file, sha) == [file |-> file, raised |-> ~IsDict(file)]

\* set_progress(dir, sha): load, add sha -> True when it is not a key, dump
set_progress(file, sha) ==
    IF ~IsDict(file)
    THEN [file |-> file, raised |-> TRUE]
    ELSE [file |-> IF sha \notin DOMAIN file.data
                   THEN Json([k \in DOMAIN file.data \cup {sha} |->
                                IF k = sha THEN TRUE ELSE file.data[k]])
                   ELSE Json(file.data),
          raised |-> FALSE]

(* ------------------------------------------------- main(): configuration *)
ConfigFields == {"remote", "configure", "build", "test", "work_dir", "out_dir"}

\* what main() has after reading the spec file and the options: the two dates
\* (None, not a date, or a date) and which of the other fields are present
\* isinstance(x, datetime.date) holds of a datetime.date and of a
\* datetime.datetime, which the spec file gives for a date written with a time
\* of day. "dates": both are dates; "datetimes": both are datetimes, the
\* end's time of day later than the start's; "mixed": one of each
Times == {"dates", "datetimes", "mixed"}

\* the values with a time of day are taken on one and the same day
Configs ==
    {c \in [start_date : Dates \cup {NoDate, NotADate},
            end_date   : Dates \cup {NoDate, NotADate},
            present    : SUBSET ConfigFields,
            times      : Times] :
        c.times # "dates" => c.start_date = c.end_date}

NoConfig == [start_date |-> NoDate, end_date |-> NoDate, present |-> {},
             times |-> "dates"]

\* current_date != end_date, line 284, for the days cur and end: a date and a
\* datetime are never equal, nor are two datetimes of different times of day
date_ne(times, cur, end) == IF times = "dates" THEN cur # end ELSE TRUE

\* end_date > current_date, line 319, for two dates or two datetimes (of a
\* date and a datetime it raises TypeError): on the same day the end, later
\* in the day, is the greater
date_gt(times, end, cur) == IF times = "dates" THEN end > cur ELSE end >= cur

\* a variant that always walks forward
NextDate_forward(times, end, cur) == cur + 1

\* lines 319-322: the cursor a day nearer to end_date, by the comparison of
\* the two as they are now
NextDate(times, end, cur) ==
    IF date_gt(times, end, cur) THEN cur + 1 ELSE cur - 1

\* a variant of the checks that forgets the output directory
ConfigError_no_out_dir(cfg) ==
    IF cfg.start_date = NoDate THEN "No start_date provided"
    ELSE IF cfg.start_date \notin Dates THEN "start_date not a date"
    ELSE IF cfg.end_date = NoDate THEN "No end_date provided"
    ELSE IF cfg.end_date \notin Dates THEN "end_date not a date"
    ELSE IF "remote" \notin cfg.present THEN "No remote provided"
    ELSE IF "configure" \notin cfg.present THEN "No configure command provided"
    ELSE IF "build" \notin cfg.present THEN "No build command provided"
    ELSE IF "test" \notin cfg.present THEN "No test command provided"
    ELSE IF "work_dir" \notin cfg.present THEN "no work dir"
    ELSE "none"

\* the checks of main() in their order: the RuntimeError raised, or "none"
ConfigError(cfg) ==
    IF cfg.start_date = NoDate THEN "No start_date provided"
    ELSE IF cfg.start_date \notin Dates THEN "start_date not a date"
    ELSE IF cfg.end_date = NoDate THEN "No end_date provided"
    ELSE IF cfg.end_date \notin Dates THEN "end_date not a date"
    ELSE IF "remote" \notin cfg.present THEN "No remote provided"
    ELSE IF "configure" \notin cfg.present THEN "No configure command provided"
    ELSE IF "build" \notin cfg.present THEN "No build command provided"
    ELSE IF "test" \notin cfg.present THEN "No test command provided"
    ELSE IF "work_dir" \notin cfg.present THEN "no work dir"
    ELSE IF "out_dir" \notin cfg.present THEN "no output dir"
    ELSE "none"

\* last_commit_before_end_of(work_dir, date): git checkout, git reset --hard,
\* git log, each through run(); c1..c3 are their exit codes
last_commit_before_end_of(commits, date, c1, c2, c3) ==
    IF c1 # 0 \/ c2 # 0 \/ c3 # 0
    THEN [raised |-> TRUE, value |-> EmptySha]
    ELSE [raised |-> FALSE,
          value  |-> Joined(StripQuotes(GitLogStdout(commits, date)))]

\* how git clone ends: it succeeds, or fails with "already exists" in its
\* stderr, or fails with another message
CloneOutcomes == {"ok", "already exists", "other"}

\* git's exit code for a failed clone
CloneCode(clone) == IF clone = "ok" THEN 0 ELSE 128

\* a variant of get that raises whatever the clone's stderr says
get_intolerant(clone, fetch) ==
    IF clone # "ok"
    THEN [raised |-> TRUE, exc |-> "RunException: git clone: " \o clone,
          calls |-> <<<<"git clone: " \o clone, CloneCode(clone)>>>>]
    ELSE [raised |-> fetch # 0,
          exc |-> IF fetch # 0 THEN "RunException: git fetch" ELSE "none",
          calls |-> <<<<"git clone: " \o clone, CloneCode(clone)>>,
                      <<"git fetch", fetch>>>>]

\* get(work_dir, remote): git clone, whose RunException is raised again
\* unless "already exists" is in its stderr; then git fetch origin.
\* [raised, exc: what leaves get, calls: the commands it ran]
get(clone, fetch) ==
    IF clone # "ok" /\ clone # "already exists"
    THEN [raised |-> TRUE, exc |-> "RunException: git clone: " \o clone,
          calls |-> <<<<"git clone: " \o clone, CloneCode(clone)>>>>]
    ELSE [raised |-> fetch # 0,
          exc |-> IF fetch # 0 THEN "RunException: git fetch" ELSE "none",
          calls |-> <<<<"git clone: " \o clone, CloneCode(clone)>>,
                      <<"git fetch", fetch>>>>]

\* a variant in which configure and build share the build subdirectory
Cwd_build_for_configure(stage) ==
    IF stage = "update" THEN "work_dir"
    ELSE IF stage \in {"configure", "build"} THEN "work_dir/build"
    ELSE "work_dir/build/packages/tpetra"

\* the cwd each stage hands to run(): update and configure run in work_dir,
\* build in work_dir/build, test in work_dir/build/packages/tpetra
Cwd(stage) ==
    IF stage \in {"update", "configure"} THEN "work_dir"
    ELSE IF stage = "build" THEN "work_dir/build"
    ELSE "work_dir/build/packages/tpetra"

\* configure()'s clean-up before the script is written: CMakeFiles and
\* CMakeCache.txt are removed, then the whole build directory; the result is
\* whether work_dir/build exists afterwards
configure_preclean(build_dir_exists) == FALSE

\* the files a process adds to the watched date's part of the persistent
\* output directory; files of the same name are overwritten, none is removed
Keep(dir, files) ==
    [dir EXCEPT !.files = @ \cup {f \in files : f[1] = dir.watch}]

(* ------------------------------------------------------------- state *)
VARIABLES
    pc,             \* main()'s position; "idle" when no process is running
    runs,           \* invocations of main() so far
    cfg,            \* the configuration of the running process
    start_date,     \* main()'s start_date
    end_date,       \* main()'s end_date
    current_date,   \* main()'s current_date
    commit_hash,    \* main()'s commit_hash
    ti,             \* the test loop's index
    calls,          \* the calls of the current date iteration, <<name, exit code>>
    visited,        \* the dates whose loop body has been entered, in order
    outcome,        \* PENDING, SKIPPED, COMPLETED or FAILED for the current date
    exc,            \* how the last process ended: "none" or the exception
    origin,         \* the days on which the remote branch has a commit
    cloned,         \* work_dir holds a clone
    progress_json,  \* out_dir/progress.json
    out_files,      \* the files the process has written under out_dir,
                    \* <<date, basename, extension>>
    interrupted,    \* the commit whose pipeline an interruption cut short, and
                    \* where, until a later pipeline completes that commit
    last_run,       \* the last stage run of the current date: its stage, cwd,
                    \* the build directory before and after the clean-up, the
                    \* exception run() raised and the one main() received
    build_exists,   \* work_dir/build exists
    out_dir,        \* one date's files in out_dir, kept across processes:
                    \* [watch, files]; watch = NoDate keeps none
    procs           \* callers of get_progress / set_progress outside main(),
                    \* each with its position, argument and history

vars == <<pc, runs, cfg, start_date, end_date, current_date, commit_hash, ti,
          calls, visited, outcome, exc, origin, cloned, progress_json,
          out_files, interrupted, last_run, build_exists, out_dir, procs>>

locals == <<cfg, start_date, end_date, current_date, commit_hash, ti>>
world == <<origin, cloned, progress_json>>

NotInterrupted == [sha |-> None, at |-> "idle"]

NoRun == [stage |-> "none", cwd |-> "none", had_build |-> FALSE,
          has_build |-> FALSE, inner |-> NoException, caught |-> NoException]
NoDir == [watch |-> NoDate, files |-> {}]

StagePcs == {"update", "configure", "build", "test"}
PipelinePcs == StagePcs \cup {"set_progress"}

\* no process is running, nothing has been cloned or built
InitMain ==
    /\ pc = "idle"
    /\ runs = 0
    /\ cfg = NoConfig
    /\ start_date = NoDate
    /\ end_date = NoDate
    /\ current_date = NoDate
    /\ commit_hash = None
    /\ ti = 0
    /\ calls = <<>>
    /\ visited = <<>>
    /\ outcome = "PENDING"
    /\ exc = "none"
    /\ cloned = FALSE
    /\ out_files = {}
    /\ interrupted = NotInterrupted
    /\ last_run = NoRun
    /\ build_exists = FALSE

Init ==
    /\ InitMain
    /\ origin \in SUBSET Dates
    /\ progress_json = Absent
    /\ out_dir = NoDir
    /\ procs = <<>>

\* the same, with the files of one date of out_dir, day 1, kept from process
\* to process; out_dir is empty at first and the branch has a commit on
\* every day
InitDir ==
    /\ InitMain
    /\ origin = Dates
    /\ progress_json = Absent
    /\ out_dir = [watch |-> 1, files |-> {}]
    /\ procs = <<>>

\* a variant in which the per-date handler also catches the errors of the
\* progress file (except Exception instead of except RunException)
Exit_catch_all(e) ==
    IF e \in {"OSError", "JSONDecodeError", "FileNotFoundError"}
    THEN /\ pc' = "advance"
         /\ outcome' = "FAILED"
         /\ UNCHANGED <<exc, cfg, start_date, end_date, current_date,
                        commit_hash, ti, calls, visited, out_files,
                        last_run>>
    ELSE /\ pc' = "idle"
         /\ exc' = e
         /\ cfg' = NoConfig
         /\ start_date' = NoDate
         /\ end_date' = NoDate
         /\ current_date' = NoDate
         /\ commit_hash' = None
         /\ ti' = 0
         /\ calls' = <<>>
         /\ visited' = <<>>
         /\ outcome' = "PENDING"
         /\ out_files' = {}
         /\ last_run' = NoRun

\* the process ends: by return (e = "none") or by an exception leaving main()
Exit(e) ==
    /\ pc' = "idle"
    /\ exc' = e
    /\ cfg' = NoConfig
    /\ start_date' = NoDate
    /\ end_date' = NoDate
    /\ current_date' = NoDate
    /\ commit_hash' = None
    /\ ti' = 0
    /\ calls' = <<>>
    /\ visited' = <<>>
    /\ outcome' = "PENDING"
    /\ out_files' = {}
    /\ last_run' = NoRun

\* except RunException (line 317): the date is given up, the loop goes on
Caught ==
    /\ pc' = "advance"
    /\ outcome' = "FAILED"

(* ----------------------------------------------------------- actions *)
\* main(), lines 220-279: read the configuration, raise on the first missing
\* field, otherwise go on to get()
Invoke ==
    /\ pc = "idle"
    /\ runs < MaxRuns
    /\ runs' = runs + 1
    /\ \E c \in Configs :
         IF ConfigError(c) # "none"
         THEN Exit(ConfigError(c))
         ELSE /\ pc' = "get"
              /\ exc' = "none"
              /\ cfg' = c
              /\ start_date' = c.start_date
              /\ end_date' = c.end_date
              /\ UNCHANGED <<current_date, commit_hash, ti, calls, visited,
                             outcome, out_files, last_run>>
    /\ UNCHANGED <<world, interrupted, build_exists, out_dir, procs>>

\* get(work_dir, remote), line 281, then current_date = start_date, line 283
Get ==
    /\ pc = "get"
    /\ \E clone \in CloneOutcomes, fetch \in ExitCodes :
         LET r == get(clone, fetch)
         IN /\ clone = "ok" => ~cloned
            /\ clone = "already exists" => cloned
            /\ cloned' = (cloned \/ clone = "ok")
            /\ IF r.raised
               THEN Exit(r.exc)
               ELSE /\ pc' = "while"
                    /\ current_date' = start_date
                    /\ calls' = r.calls
                    /\ UNCHANGED <<exc, cfg, start_date, end_date,
                                   commit_hash, ti, visited, outcome,
                                   out_files, last_run>>
    /\ UNCHANGED <<runs, origin, progress_json, interrupted, build_exists,
                   out_dir, procs>>

\* while current_date != end_date, line 284
While ==
    /\ pc = "while"
    /\ IF date_ne(cfg.times, current_date, end_date)
       THEN /\ Len(visited) < MaxVisits
            /\ pc' = "resolve"
            /\ visited' = Append(visited, current_date)
            /\ calls' = <<>>
            /\ outcome' = "PENDING"
            /\ last_run' = NoRun
            /\ UNCHANGED <<exc, cfg, start_date, end_date, current_date,
                           commit_hash, ti, out_files>>
       ELSE Exit("none")
    /\ UNCHANGED <<runs, world, interrupted, build_exists, out_dir, procs>>

\* commit_hash = last_commit_before_end_of(work_dir, current_date), line 286
Resolve ==
    /\ pc = "resolve"
    /\ \E c1 \in ExitCodes, c2 \in ExitCodes, c3 \in ExitCodes :
         LET r == last_commit_before_end_of(origin, current_date, c1, c2, c3)
         IN /\ calls' = Append(calls, <<"last_commit_before_end_of",
                                        IF r.raised THEN 1 ELSE 0>>)
            /\ IF r.raised
               THEN Caught /\ UNCHANGED commit_hash
               ELSE /\ pc' = "get_progress"
                    /\ commit_hash' = r.value
                    /\ UNCHANGED outcome
    /\ UNCHANGED <<runs, cfg, start_date, end_date, current_date, ti, visited,
                   exc, world, out_files, interrupted, last_run, build_exists,
                   out_dir, procs>>

\* if not get_progress(out_dir, commit_hash), line 289; oserr is an I/O error
\* of open() or read(), which like a json.load error is no RunException
GetProgress ==
    /\ pc = "get_progress"
    /\ \E oserr \in BOOLEAN :
         LET r == get_progress(progress_json, commit_hash)
         IN IF oserr
            THEN Exit("OSError") /\ UNCHANGED progress_json
            ELSE /\ progress_json' = r.file
                 /\ IF r.raised
                    THEN Exit("JSONDecodeError")
                    ELSE /\ calls' = Append(calls, <<"get_progress", 0>>)
                         /\ IF r.value
                            THEN pc' = "advance" /\ outcome' = "SKIPPED"
                            ELSE pc' = "update" /\ UNCHANGED outcome
                         /\ UNCHANGED <<exc, cfg, start_date, end_date,
                                        current_date, commit_hash, ti, visited,
                                        out_files, last_run>>
    /\ UNCHANGED <<runs, origin, cloned, interrupted, build_exists, out_dir,
                   procs>>

\* a variant that goes on to the next stage whatever the stage's result
StageDone_ignore(raised, next_pc) == pc' = next_pc /\ UNCHANGED outcome

\* what main() does with a stage's result: go on, or the except clause
StageDone(raised, next_pc) ==
    IF raised
    THEN Caught
    ELSE pc' = next_pc /\ UNCHANGED outcome

\* what is recorded of one stage run
StageRun(stage, had_build, has_build, inner, caught) ==
    [stage |-> stage, cwd |-> Cwd(stage), had_build |-> had_build,
     has_build |-> has_build, inner |-> inner, caught |-> caught]

\* subprocess.Popen(cmd, cwd=...) in run(), line 32: a cwd that does not exist
\* raises FileNotFoundError, which is no RunException and leaves main(); the
\* script has been written by then, the .out/.err pair has not
CwdMissing(output_name) ==
    /\ Exit("FileNotFoundError: cwd")
    /\ out_dir' = Keep(out_dir, RunnableScript_enter(out_files, output_name))

\* update(work_dir, commit_hash, out_dir / "<date>_01update"), lines 290-294
Update ==
    /\ pc = "update"
    /\ \E code \in GitResetCodes(commit_hash) :
         LET r == update(out_files, <<current_date, UpdateName>>, code)
         IN /\ calls' = Append(calls, <<"update", code>>)
            /\ out_files' = r.files
            /\ out_dir' = Keep(out_dir, r.files)
            /\ last_run' = StageRun("update", build_exists, build_exists,
                                    r.exception, r.exception)
            /\ StageDone(r.raised, "configure")
    /\ UNCHANGED <<runs, locals, visited, exc, origin, cloned, progress_json,
                   interrupted, build_exists, procs>>

\* configure(..., out_dir / "<date>_02config"), lines 295-300: the clean-up,
\* then the script in work_dir; the script may or may not make a build
\* directory (makes_build)
Configure ==
    /\ pc = "configure"
    /\ \E code \in ExitCodes, makes_build \in BOOLEAN :
         LET r == ScriptStage(out_files, <<current_date, ConfigName>>, code)
             cleaned == configure_preclean(build_exists)
         IN /\ calls' = Append(calls, <<"configure", code>>)
            /\ out_files' = r.files
            /\ out_dir' = Keep(out_dir, r.files)
            /\ last_run' = StageRun("configure", build_exists, cleaned,
                                    r.inner, r.exception)
            /\ build_exists' = (cleaned \/ makes_build)
            /\ StageDone(r.raised, "build")
    /\ UNCHANGED <<runs, locals, visited, exc, origin, cloned, progress_json,
                   interrupted, procs>>

\* build(..., out_dir / "<date>_03build"), lines 301-306, in work_dir/build;
\* the test loop starts at ti = 0
Build ==
    /\ pc = "build"
    /\ IF ~build_exists
       THEN CwdMissing(<<current_date, BuildName>>)
       ELSE \E code \in ExitCodes :
              LET r == ScriptStage(out_files, <<current_date, BuildName>>, code)
              IN /\ calls' = Append(calls, <<"build", code>>)
                 /\ out_files' = r.files
                 /\ out_dir' = Keep(out_dir, r.files)
                 /\ last_run' = StageRun("build", build_exists, build_exists,
                                         r.inner, r.exception)
                 /\ StageDone(r.raised, "test")
                 /\ ti' = 0
                 /\ UNCHANGED <<cfg, start_date, end_date, current_date,
                                commit_hash, visited, exc>>
    /\ UNCHANGED <<runs, origin, cloned, progress_json, interrupted,
                   build_exists, procs>>

\* for ti in range(0, 5): test(..., out_dir / "<date>_04test<ti>"), lines
\* 307-313, in work_dir/build/packages/tpetra, which the build may or may not
\* have made (cwd_ok)
Test ==
    /\ pc = "test"
    /\ \E code \in ExitCodes, cwd_ok \in BOOLEAN :
         IF ~(cwd_ok /\ build_exists)
         THEN CwdMissing(<<current_date, TestName(ti)>>)
         ELSE LET r == ScriptStage(out_files, <<current_date, TestName(ti)>>,
                                   code)
              IN /\ calls' = Append(calls, <<"test" \o ToString(ti), code>>)
                 /\ out_files' = r.files
                 /\ out_dir' = Keep(out_dir, r.files)
                 /\ last_run' = StageRun("test", build_exists, build_exists,
                                         r.inner, r.exception)
                 /\ StageDone(r.raised,
                              IF ti + 1 < NumTests THEN "test"
                              ELSE "set_progress")
                 /\ ti' = IF r.raised THEN ti ELSE ti + 1
                 /\ UNCHANGED <<cfg, start_date, end_date, current_date,
                                commit_hash, visited, exc>>
    /\ UNCHANGED <<runs, origin, cloned, progress_json, interrupted,
                   build_exists, procs>>

\* set_progress(out_dir, commit_hash), line 314
SetProgress ==
    /\ pc = "set_progress"
    /\ \E oserr \in BOOLEAN :
         LET r == set_progress(progress_json, commit_hash)
         IN IF oserr \/ r.raised
            THEN /\ Exit(IF oserr THEN "OSError"
                         ELSE IF progress_json.kind = "absent"
                              THEN "FileNotFoundError"
                              ELSE "JSONDecodeError")
                 /\ UNCHANGED <<progress_json, interrupted>>
            ELSE /\ calls' = Append(calls, <<"set_progress", 0>>)
                 /\ progress_json' = r.file
                 /\ pc' = "advance"
                 /\ outcome' = "COMPLETED"
                 /\ interrupted' = IF interrupted.sha = commit_hash
                                   THEN NotInterrupted ELSE interrupted
                 /\ UNCHANGED <<exc, cfg, start_date, end_date, current_date,
                                commit_hash, ti, visited, out_files, last_run>>
    /\ UNCHANGED <<runs, origin, cloned, build_exists, out_dir, procs>>

\* lines 319-322: one day towards end_date, then back to the loop test
Advance ==
    /\ pc = "advance"
    /\ IF cfg.times = "mixed"
       THEN Exit("TypeError")
       ELSE /\ current_date' = NextDate(cfg.times, end_date, current_date)
            /\ pc' = "while"
            /\ UNCHANGED <<cfg, start_date, end_date, commit_hash, ti, calls,
                           visited, outcome, exc, out_files, last_run>>
    /\ UNCHANGED <<runs, world, interrupted, build_exists, out_dir, procs>>

\* the process is interrupted (killed) at any point of main()
Interrupt ==
    /\ pc # "idle"
    /\ Exit("KeyboardInterrupt")
    /\ interrupted' = IF pc \in PipelinePcs
                      THEN [sha |-> commit_hash, at |-> pc]
                      ELSE interrupted
    /\ UNCHANGED <<runs, world, build_exists, out_dir, procs>>

\* between two processes the progress file is damaged (a torn write, a bad disk)
CorruptProgress ==
    /\ pc = "idle"
    /\ IsDict(progress_json)
    /\ progress_json' = Corrupt
    /\ UNCHANGED <<pc, runs, locals, calls, visited, outcome, exc, origin,
                   cloned, out_files, interrupted, last_run, build_exists,
                   out_dir, procs>>

Next ==
    \/ Invoke
    \/ Get
    \/ While
    \/ Resolve
    \/ GetProgress
    \/ Update
    \/ Configure
    \/ Build
    \/ Test
    \/ SetProgress
    \/ Advance
    \/ Interrupt
    \/ CorruptProgress

Spec == Init /\ [][Next]_vars

SpecDir == InitDir /\ [][Next]_vars

TypeOK ==
    /\ pc \in {"idle", "get", "while", "resolve", "get_progress", "advance"}
              \cup PipelinePcs
    /\ runs \in 0..MaxRuns
    /\ current_date \in 0..(MaxDate + 1) \cup {NoDate}
    /\ commit_hash \in Shas \cup {EmptySha, None}
    /\ ti \in 0..NumTests
    /\ outcome \in {"PENDING", "SKIPPED", "COMPLETED", "FAILED"}
    /\ progress_json.kind \in {"absent", "corrupt", "json"}
    /\ DOMAIN progress_json.data \subseteq Shas \cup {EmptySha}
    /\ out_files \subseteq (0..(MaxDate + 1)) \X {UpdateName, ConfigName, BuildName, "_04test0", "_04test1", "_04test2", "_04test3", "_04test4"} \X {".out", ".err", ".sh"}

(* ------------------------------------- the progress store on its own *)
\* get_progress and set_progress called directly, by one process or by two
\* that share the file. Neither function takes a lock, so each open() of the
\* file is a step of its own: get_progress is is_file(), the write of "{}",
\* the load; set_progress is the load, then the dump of what was loaded.
\* the number of calls a caller makes
MaxCalls == 2

\* the stores the program can have written: absent, or a dict whose values
\* are all True; and a damaged file
Stores ==
    {Absent, Corrupt} \cup {Json([k \in K |-> TRUE]) : K \in SUBSET Shas}

\* a caller between two calls; n counts its calls, done lists the commits
\* whose set_progress has returned, res is how its last call ended
IdleProc == [at |-> "idle", sha |-> None, snap |-> Absent, n |-> 0,
             done |-> <<>>, res |-> "none"]

main_vars == <<pc, runs, cfg, start_date, end_date, current_date, commit_hash,
               ti, calls, visited, outcome, exc, origin, cloned, out_files,
               interrupted, last_run, build_exists, out_dir>>

InitStore ==
    /\ InitMain
    /\ origin = {}
    /\ out_dir = NoDir
    /\ progress_json \in Stores
    /\ procs \in {[p \in 1..k |-> IdleProc] : k \in 1..2}

\* get_progress, line 180: if not file_path.is_file()
GpCheck(p, sha) ==
    /\ procs[p].at = "idle"
    /\ procs[p].n < MaxCalls
    /\ procs' = [procs EXCEPT ![p].at = IF progress_json.kind = "absent"
                                        THEN "gp_create" ELSE "gp_load",
                               ![p].sha = sha,
                               ![p].n = @ + 1,
                               ![p].res = "none"]
    /\ UNCHANGED progress_json

\* get_progress, lines 182-183: open(file_path, "w"), write "{}"
GpCreate(p) ==
    /\ procs[p].at = "gp_create"
    /\ progress_json' = get_progress(Absent, procs[p].sha).file
    /\ procs' = [procs EXCEPT ![p].at = "gp_load"]

\* get_progress, lines 184-186: json.load and data.get(sha, False)
GpLoad(p) ==
    /\ procs[p].at = "gp_load"
    /\ LET r == get_progress(progress_json, procs[p].sha)
       IN procs' = [procs EXCEPT ![p].at = "idle",
                                 ![p].res = IF r.raised THEN "JSONDecodeError"
                                            ELSE ToString(r.value)]
    /\ UNCHANGED progress_json

\* set_progress, lines 191-192: open(file_path, "r") and json.load
SpLoad(p, sha) ==
    /\ procs[p].at = "idle"
    /\ procs[p].n < MaxCalls
    /\ procs' = [procs EXCEPT
                   ![p].at = IF IsDict(progress_json) THEN "sp_dump" ELSE "idle",
                   ![p].sha = sha,
                   ![p].n = @ + 1,
                   ![p].snap = IF IsDict(progress_json) THEN progress_json
                               ELSE Absent,
                   ![p].res = IF IsDict(progress_json) THEN "none"
                              ELSE IF progress_json.kind = "absent"
                                   THEN "FileNotFoundError"
                                   ELSE "JSONDecodeError"]
    /\ UNCHANGED progress_json

\* set_progress, lines 193-196: the key is added to what was loaded, and that
\* is dumped over the file
SpDump(p) ==
    /\ procs[p].at = "sp_dump"
    /\ progress_json' = set_progress(procs[p].snap, procs[p].sha).file
    /\ procs' = [procs EXCEPT ![p].at = "idle",
                              ![p].snap = Absent,
                              ![p].done = Append(@, procs[p].sha),
                              ![p].res = "ok"]

NextStore ==
    \/ \E p \in DOMAIN procs, sha \in Shas : GpCheck(p, sha) /\ UNCHANGED main_vars
    \/ \E p \in DOMAIN procs : GpCreate(p) /\ UNCHANGED main_vars
    \/ \E p \in DOMAIN procs : GpLoad(p) /\ UNCHANGED main_vars
    \/ \E p \in DOMAIN procs, sha \in Shas : SpLoad(p, sha) /\ UNCHANGED main_vars
    \/ \E p \in DOMAIN procs : SpDump(p) /\ UNCHANGED main_vars

SpecStore == InitStore /\ [][NextStore]_vars

\* one caller, which is then sequential
Sequential == Cardinality(DOMAIN procs) = 1

\* the commits caller p has marked: its set_progress calls that returned
MarksOf(p) == {procs[p].done[i] : i \in 1..Len(procs[p].done)}

\* caller p takes the last step of a set_progress call, the dump
Dumps(p) == procs[p].at = "sp_dump" /\ procs'[p].at = "idle"

\* caller p is in, enters or leaves a get_progress call
Gets(p) ==
    \/ procs[p].at \in {"gp_create", "gp_load"}
    \/ procs'[p].at \in {"gp_create", "gp_load"}

(* ------------------------------------------------------- observations *)
\* the progress file records sha as done
Done(sha) == IsDict(progress_json) /\ DictGet(progress_json.data, sha)

StageNames == {"update", "configure", "build"} \cup
              {"test" \o ToString(i) : i \in 0..(NumTests - 1)}

\* update, configure, build, test0 .. test4, each with exit code 0
FullPipeline ==
    <<<<"update", 0>>, <<"configure", 0>>, <<"build", 0>>>> \o
    [i \in 1..NumTests |-> <<"test" \o ToString(i - 1), 0>>]

\* the last call of a date iteration is a stage that exited non-zero
StageFailed(c) ==
    /\ c # <<>>
    /\ c[Len(c)][1] \in StageNames
    /\ c[Len(c)][2] # 0

\* the last call of a date iteration is a failed commit resolution
ResolutionFailed(c) ==
    /\ c # <<>>
    /\ c[Len(c)] = <<"last_commit_before_end_of", 1>>

\* one day from d in the direction of the walk from a to b
Step(a, b, d) == IF b > a THEN d + 1 ELSE d - 1

\* the dates from a to b, both included, in walk order
ClosedRange(a, b) ==
    [i \in 1..((IF b > a THEN b - a ELSE a - b) + 1) |->
        IF b > a THEN a + (i - 1) ELSE a - (i - 1)]

\* the dates from a up to but not including b, in walk order
HalfOpenRange(a, b) ==
    [i \in 1..(IF b > a THEN b - a ELSE a - b) |->
        IF b > a THEN a + (i - 1) ELSE a - (i - 1)]

\* what a date iteration has called before its first stage
Preamble == <<<<"last_commit_before_end_of", 0>>, <<"get_progress", 0>>>>

\* this step starts a stage subprocess
StageInvoked == pc \in StagePcs /\ Len(calls') = Len(calls) + 1

\* this step is set_progress writing the file
Marked == pc = "set_progress" /\ pc' = "advance"

\* this step is the interruption of the process
Interrupted == pc # "idle" /\ exc' = "KeyboardInterrupt"

\* the running process has start_date and end_date as dates without a time
DatesOnly == cfg.times = "dates"

(* ------------------------------------------------------------- claims *)
\* C1: while the progress file records a commit as done, no step of any run
\* invokes update, configure, build or test for that commit, and set_progress
\* is not reached again for it: no stage step and no marking step happens for
\* a commit_hash that the file already holds.
C1_ExactlyOnce ==
    [][(StageInvoked \/ Marked) => ~Done(commit_hash)]_vars

\* C1 witness: the first date of a second run resolves to a commit that an
\* earlier run recorded as done, and is skipped.
C1_Witness ==
    /\ runs = 2
    /\ Len(visited) = 1
    /\ pc = "advance"
    /\ outcome = "SKIPPED"
    /\ Done(commit_hash)

\* C2: (a) the step that records a commit follows, in the same date iteration,
\* update, configure, build and the five tests all with exit code 0; (b) an
\* interruption inside the pipeline leaves the commit not recorded, and it
\* stays so until a pipeline completes it; (c) a later progress check of that
\* commit sends main to update, and update is the first stage of an iteration.
C2_AllOrNothing ==
    [][/\ Marked => calls = Preamble \o FullPipeline
       /\ (Interrupted /\ pc \in PipelinePcs) => ~Done(commit_hash)'
       /\ interrupted'.sha # None => ~Done(interrupted.sha)'
       /\ (pc = "get_progress" /\ commit_hash = interrupted.sha
             /\ pc' # "idle") => pc' = "update"
       /\ pc' = "update" => calls' = Preamble]_vars

\* C2 witness: a run was interrupted during the tests (after build); the next
\* run resolves a date to the same commit and has run update again for it.
C2_Witness ==
    /\ runs = 2
    /\ interrupted.at = "test"
    /\ commit_hash = interrupted.sha
    /\ pc = "configure"
    /\ calls = Preamble \o <<<<"update", 0>>>>

\* C3, first part: a stage that exits non-zero is followed by no other call
\* for that date (no later stage, no retry, no set_progress) and leaves the
\* progress file as it was; the cursor then moves one day in walk direction.
C3_NoLaterStage ==
    /\ (StageInvoked /\ StageFailed(calls')) =>
          /\ pc' = "advance"
          /\ outcome' = "FAILED"
          /\ progress_json' = progress_json
    /\ (StageFailed(calls) /\ ~Interrupted) =>
          /\ calls' \in {calls, <<>>}
          /\ progress_json' = progress_json
          /\ ~Done(commit_hash)
    /\ (pc = "advance" /\ StageFailed(calls) /\ ~Interrupted /\ DatesOnly) =>
          /\ pc' = "while"
          /\ current_date' = Step(start_date, end_date, current_date)

\* C3, second part: after a failed stage the loop body is entered for the
\* next date (the cursor has already moved to it when the loop test runs).
C3_NextDateAttempted ==
    (pc = "while" /\ StageFailed(calls) /\ ~Interrupted) =>
          /\ pc' = "resolve"
          /\ visited' = Append(visited, current_date)

\* C3: if a stage exits non-zero for date D, no later stage or repetition runs
\* for D, progress stays unmarked, the stage is not retried, and the loop
\* attempts the next date in walk direction.
C3_FailureIsolation ==
    [][C3_NoLaterStage /\ C3_NextDateAttempted]_vars

\* the part of C3 that does not depend on which dates the walk covers
C3_IsolationWithinDate ==
    [][C3_NoLaterStage]_vars

\* C4: when the loop ends, the dates whose body was entered are exactly the
\* dates of the closed range from start_date to end_date, in walk order, each
\* once.
C4_InclusiveWalk ==
    [][(pc = "while" /\ pc' = "idle" /\ exc' = "none") =>
          visited = ClosedRange(start_date, end_date)]_vars

\* what the loop of lines 284-322 does instead, for dates without a time: at
\* every loop test the dates entered are those from start_date up to but not
\* including current_date
C4_HalfOpenWalk ==
    (pc = "while" /\ DatesOnly) =>
        visited = HalfOpenRange(start_date, current_date)

\* the calls of an iteration after the resolution and the progress check
StagePart(c) == IF Len(c) <= 2 THEN <<>> ELSE SubSeq(c, 3, Len(c))

StageOrder == FullPipeline \o <<<<"set_progress", 0>>>>

NoDuplicates(q) == \A i, j \in 1..Len(q) : q[i] = q[j] => i = j

\* C5: the stage calls of a date iteration are an initial part of update,
\* configure, build, test0 .. test4, set_progress, each at most once, each
\* after the previous one exited 0, and only after the progress check said
\* "not done"; a stage runs for the date the loop is at while that date is
\* pending, and the loop enters another date only when the current one is
\* SKIPPED, COMPLETED or FAILED; no stage is invoked for a date for which the
\* process has invoked it before.
C5_StageOrdering ==
    [][/\ LET st == StagePart(calls')
          IN /\ Len(st) <= Len(StageOrder)
             /\ \A i \in 1..Len(st) :
                   /\ st[i][1] = StageOrder[i][1]
                   /\ i < Len(st) => st[i][2] = 0
             /\ st # <<>> => SubSeq(calls', 1, 2) = Preamble
       /\ (StageInvoked \/ Marked) =>
             /\ outcome = "PENDING"
             /\ visited[Len(visited)] = current_date
             /\ ~Done(commit_hash)
       /\ (Len(visited') > Len(visited) /\ visited # <<>>) =>
             outcome \in {"SKIPPED", "COMPLETED", "FAILED"}
       /\ (pc = "update" /\ StageInvoked) =>
             <<current_date, UpdateName, ".out">> \notin out_files]_vars

\* C5 witness: a second date of a run is in its fourth test repetition after
\* update, configure, build and three tests exited 0.
C5_Witness ==
    /\ pc = "test"
    /\ ti = 3
    /\ Len(visited) = 2
    /\ Len(StagePart(calls)) = 6

FilesOf(d) == {f \in out_files : f[1] = d}

TestBasenames == {"_04test0", "_04test1", "_04test2", "_04test3", "_04test4"}

\* the eight .out/.err pairs of date d
OutputPairs(d) ==
    {<<d, n, x>> : n \in {"_01update", "_02config", "_03build"} \cup TestBasenames,
                   x \in {".out", ".err"}}

\* the seven scripts that configure, build and the tests leave behind for d
RetainedScripts(d) ==
    {<<d, n, ".sh">> : n \in {"_02config", "_03build"} \cup TestBasenames}

\* C6 as stated: when the pipeline of date D has completed, the files written
\* with prefix D are exactly the eight .out/.err pairs.
C6_OnlyOutputPairs ==
    (pc = "advance" /\ outcome = "COMPLETED") =>
        FilesOf(current_date) = OutputPairs(current_date)

\* C6 amended: when the pipeline of date D has completed, the files written
\* with prefix D are exactly the eight .out/.err pairs and the seven scripts
\* D_02config.sh, D_03build.sh, D_04test0.sh .. D_04test4.sh (23 files).
C6_PairsAndScripts ==
    (pc = "advance" /\ outcome = "COMPLETED") =>
        /\ FilesOf(current_date) =
              OutputPairs(current_date) \cup RetainedScripts(current_date)
        /\ Cardinality(FilesOf(current_date)) = 23

\* C6 witness: a completed date whose configure script file is in out_dir.
C6_Witness ==
    /\ pc = "advance"
    /\ outcome = "COMPLETED"
    /\ <<current_date, "_02config", ".sh">> \in out_files

\* C7, first part: a failed resolution is caught, no stage runs for the date,
\* the progress file is neither read nor written and nothing is written to
\* out_dir; the cursor then moves one day in walk direction.
C7_NothingRunsForDate ==
    /\ (pc = "resolve" /\ ResolutionFailed(calls')) =>
          /\ pc' = "advance"
          /\ outcome' = "FAILED"
          /\ calls' = <<<<"last_commit_before_end_of", 1>>>>
          /\ UNCHANGED <<progress_json, out_files>>
    /\ (ResolutionFailed(calls) /\ ~Interrupted) =>
          /\ calls' \in {calls, <<>>}
          /\ UNCHANGED progress_json
          /\ pc' # "idle" => UNCHANGED out_files
    /\ (pc = "advance" /\ ResolutionFailed(calls) /\ ~Interrupted
           /\ DatesOnly) =>
          /\ pc' = "while"
          /\ current_date' = Step(start_date, end_date, current_date)

\* C7, second part: after a failed resolution the sweep continues with the
\* next date.
C7_NextDateAttempted ==
    (pc = "while" /\ ResolutionFailed(calls) /\ ~Interrupted) =>
          /\ pc' = "resolve"
          /\ visited' = Append(visited, current_date)

\* C7: a version-control failure inside last_commit_before_end_of for date D
\* is caught per date, no stage runs for D, the progress store is not touched
\* for D, and the sweep continues with the next date.
C7_ResolutionError ==
    [][C7_NothingRunsForDate /\ C7_NextDateAttempted]_vars

\* the part of C7 that does not depend on which dates the walk covers
C7_ResolutionErrorWithinDate ==
    [][C7_NothingRunsForDate]_vars

\* C8: when the branch has no commit at or before the date, the resolution
\* fails, and main never reaches the progress check or update with an empty
\* commit identifier.
C8_EmptyHistoryFails ==
    [][/\ (pc = "resolve" /\ {d \in origin : d <= current_date} = {}
             /\ ~Interrupted) =>
             (pc' = "advance" /\ outcome' = "FAILED")
       /\ pc' \in {"get_progress", "update"} => commit_hash' # ""]_vars

ConfigErrors ==
    {"No start_date provided", "start_date not a date", "No end_date provided",
     "end_date not a date", "No remote provided",
     "No configure command provided", "No build command provided",
     "No test command provided", "no work dir", "no output dir"}

ConfigComplete(c) ==
    /\ c.start_date \in Dates
    /\ c.end_date \in Dates
    /\ c.present = {"remote", "configure", "build", "test", "work_dir", "out_dir"}

\* C9: main works (clone, fetch, resolution, stages, progress file) only with
\* a complete configuration; an invocation with a missing or ill-typed field
\* ends at once with a RuntimeError, having cloned nothing, written nothing
\* and left the progress file as it was (absent if it was absent).
C9_ConfigFatal ==
    [][/\ pc' # "idle" => ConfigComplete(cfg')
       /\ (pc = "idle" /\ runs' = runs + 1 /\ pc' = "idle") =>
             /\ exc' \in ConfigErrors
             /\ UNCHANGED <<progress_json, cloned, origin>>
             /\ out_files' = {}
             /\ calls' = <<>>
             /\ visited' = <<>>]_vars

\* C9 witness: a first invocation without an output directory has raised;
\* there is no clone and no progress file.
C9_Witness ==
    /\ pc = "idle"
    /\ runs = 1
    /\ exc = "no output dir"
    /\ ~cloned
    /\ progress_json.kind = "absent"

CheckpointErrors == {"OSError", "JSONDecodeError", "FileNotFoundError"}

\* C10: an error of get_progress or set_progress is not turned into a FAILED
\* date by the per-date handler: it ends the process with that error, so no
\* later date is processed; a progress file that is not JSON always does so
\* at the progress check.
C10_CheckpointFatal ==
    [][/\ pc \in {"get_progress", "set_progress"} => outcome' # "FAILED"
       /\ (pc = "get_progress" /\ progress_json.kind = "corrupt"
             /\ ~Interrupted) =>
             (pc' = "idle" /\ exc' \in {"JSONDecodeError", "OSError"})
       /\ (pc # "idle" /\ exc' \in CheckpointErrors) =>
             /\ pc \in {"get_progress", "set_progress"}
             /\ pc' = "idle"
             /\ visited' = <<>>]_vars

\* C10 witness: a run ended with the JSON error of a damaged progress file.
C10_Witness ==
    /\ pc = "idle"
    /\ exc = "JSONDecodeError"
    /\ progress_json.kind = "corrupt"

\* C11: set_progress(c) on a store in which c is already done leaves the
\* mapping as it was and raises nothing; calling it twice gives the store
\* that calling it once gives.
C11_SetProgressIdempotent ==
    [][/\ \A c \in Shas :
            IsDict(progress_json) =>
               set_progress(set_progress(progress_json, c).file, c)
                  = set_progress(progress_json, c)
       /\ \A p \in DOMAIN procs :
            /\ (Sequential /\ Dumps(p) /\ Done(procs[p].sha)) =>
                  /\ progress_json' = progress_json
                  /\ procs'[p].res = "ok"
            /\ (Sequential /\ procs[p].at = "idle" /\ procs'[p].n = procs[p].n + 1
                   /\ Done(procs'[p].sha)) =>
                  procs'[p].at \in {"sp_dump", "gp_load"}]_vars

\* C11 witness: one caller has marked c1 twice; c1 is done.
C11_Witness ==
    /\ Sequential
    /\ procs[1].at = "idle"
    /\ procs[1].done = <<"c1", "c1">>
    /\ procs[1].res = "ok"
    /\ Done("c1")

\* C12: under the calls of one sequential caller the store only grows: no
\* entry is removed or changed, get_progress leaves a store that exists as it
\* is, and set_progress(c) leaves the entry of every other commit as it is.
C12_AppendOnly ==
    [][Sequential =>
         /\ IsDict(progress_json) =>
               /\ IsDict(progress_json')
               /\ \A k \in DOMAIN progress_json.data :
                     /\ k \in DOMAIN progress_json'.data
                     /\ progress_json'.data[k] = progress_json.data[k]
         /\ \A p \in DOMAIN procs :
               /\ (Gets(p) /\ progress_json.kind # "absent") =>
                     progress_json' = progress_json
               /\ Dumps(p) =>
                     \A k \in Shas \ {procs[p].sha} :
                        /\ (k \in DOMAIN progress_json'.data)
                              = (k \in DOMAIN progress_json.data)
                        /\ DictGet(progress_json'.data, k)
                              = DictGet(progress_json.data, k)]_vars

\* C12 witness: one caller has marked c1 in a store that held c0; both are
\* entries now.
C12_Witness ==
    /\ Sequential
    /\ procs[1].done = <<"c1">>
    /\ procs[1].n = MaxCalls
    /\ IsDict(progress_json)
    /\ DOMAIN progress_json.data = {"c0", "c1"}

\* C13: with one sequential caller every mark survives: each commit whose
\* set_progress has returned is done in the store. With two callers there is
\* an interleaving after which one of two marks is gone (the witness).
C13_SequentialKeepsMarks ==
    Sequential => \A c \in MarksOf(1) : Done(c)

\* C13 witness: two callers have each marked one commit, c0 and c1, and the
\* store does not hold c0.
C13_LostMark ==
    /\ Cardinality(DOMAIN procs) = 2
    /\ procs[1].at = "idle" /\ procs[2].at = "idle"
    /\ procs[1].done = <<"c0">>
    /\ procs[2].done = <<"c1">>
    /\ IsDict(progress_json)
    /\ "c0" \notin DOMAIN progress_json.data
    /\ Done("c1")

\* an exception of get
GetErrors == {"RunException: git clone: other", "RunException: git fetch"}

\* the calls of a get that returned after the clone found work_dir in place
Tolerated == <<<<"git clone: already exists", 128>>, <<"git fetch", 0>>>>

\* C14: a clone that fails with "already exists" is not an error of get: the
\* fetch follows and decides. Any other clone failure and any fetch failure
\* leave main() from get, before the loop: no date has been visited, and the
\* progress file, the output directory and the build directory are untouched.
C14_GetFailures ==
    [][/\ exc' # "RunException: git clone: already exists"
       /\ \A fetch \in ExitCodes :
            /\ get("already exists", fetch).raised = (fetch # 0)
            /\ get("already exists", fetch).calls[2] = <<"git fetch", fetch>>
            /\ get("other", fetch).raised
            /\ Len(get("other", fetch).calls) = 1
       /\ (pc # "idle" /\ exc' \in GetErrors) =>
            /\ pc = "get"
            /\ pc' = "idle"
            /\ visited = <<>>
            /\ UNCHANGED <<progress_json, out_dir, build_exists>>
       /\ (pc = "get" /\ pc' = "while") =>
            /\ cloned'
            /\ calls'[Len(calls')] = <<"git fetch", 0>>
            /\ cloned => calls' = Tolerated]_vars

\* C14 witness: the clone found work_dir in place, the fetch followed, and
\* main() is at the loop.
C14_Witness ==
    /\ pc = "while"
    /\ visited = <<>>
    /\ calls = Tolerated

\* C14 witness of the other half: a process that found the clone of an
\* earlier one has ended with the failure of its fetch.
C14_FetchFailed ==
    /\ runs = 2
    /\ cloned
    /\ exc = "RunException: git fetch"

\* the output name of the stage main() is at
NameAt(at) ==
    IF at = "configure" THEN <<current_date, ConfigName>>
    ELSE IF at = "build" THEN <<current_date, BuildName>>
    ELSE <<current_date, TestName(ti)>>

\* the output basename main() gives a stage
BasenameOf(stage) ==
    IF stage = "update" THEN UpdateName
    ELSE IF stage = "configure" THEN ConfigName
    ELSE IF stage = "build" THEN BuildName
    ELSE CHOOSE n \in TestBasenames :
            \E i \in 0..(NumTests - 1) :
               stage = "test" \o ToString(i) /\ n = TestName(i)

\* the .out/.err pairs of the stages that date d's iteration has run
PairsOfCalls(d, c) ==
    {<<d, BasenameOf(StagePart(c)[i][1]), x>> :
        i \in 1..Len(StagePart(c)), x \in {".out", ".err"}}

\* the .out/.err files among files, for date d
PairsIn(files, d) == {f \in files : f[1] = d /\ f[3] \in {".out", ".err"}}

\* this step is a stage of the watched date exiting non-zero
WatchedStageFails ==
    /\ pc \in StagePcs
    /\ pc' = "advance"
    /\ outcome' = "FAILED"
    /\ current_date = out_dir.watch

\* C15 as stated: when stage k of date D exits non-zero, the output directory
\* holds the pairs of the stages of D that ran, k included, and the pair of
\* no later stage.
C15_DirectoryHoldsRunStagesOnly ==
    [][WatchedStageFails =>
         PairsIn(out_dir'.files, current_date)
            = PairsOfCalls(current_date, calls')]_vars

\* the output basename of the stage main() is at
CurrentBasename == IF pc = "update" THEN UpdateName ELSE NameAt(pc)[2]

\* C15, amended: when stage k of date D exits non-zero, the output directory
\* holds the pairs of the stages of D that this iteration ran, k included;
\* nothing is removed from the directory, and a file is added to it only by
\* the stage that is running, under that stage's basename: the iteration
\* writes no pair of a stage after k, and the pairs an earlier iteration or
\* process left for D are still there.
C15_IterationWroteRunStagesOnly ==
    [][/\ WatchedStageFails =>
            PairsOfCalls(current_date, calls') \subseteq out_dir'.files
       /\ out_dir.files \subseteq out_dir'.files
       /\ \A f \in out_dir'.files \ out_dir.files :
            /\ pc \in StagePcs
            /\ f[1] = current_date
            /\ f[2] = CurrentBasename]_vars

\* C15 witness: the configure stage of the watched date has just failed, and
\* the directory holds the build output an earlier process left for the date.
C15_Witness ==
    /\ pc = "advance"
    /\ outcome = "FAILED"
    /\ current_date = out_dir.watch
    /\ calls[Len(calls)] = <<"configure", 1>>
    /\ <<current_date, ConfigName, ".err">> \in out_dir.files
    /\ <<current_date, ConfigName, ".err">> \in out_files
    /\ <<current_date, BuildName, ".out">> \in out_dir.files

\* this step is configure, build or a test running its script
ScriptInvoked == StageInvoked /\ pc \in {"configure", "build", "test"}

\* C16: what run() raises inside the RunnableScript scope of configure, build
\* or test is what main() receives, with the same cmd, stdout, stderr and
\* code, and the date is given up; when run() raises nothing, leaving the
\* scope raises nothing and main() goes on.
C16_ScopeKeepsException ==
    [][ScriptInvoked =>
         /\ last_run'.caught = last_run'.inner
         /\ last_run'.inner.type = "RunException" =>
               /\ last_run'.caught.cmd = ScriptPath(NameAt(pc))
               /\ last_run'.caught.code = calls'[Len(calls')][2]
               /\ last_run'.caught.code # 0
               /\ pc' = "advance" /\ outcome' = "FAILED"
         /\ last_run'.inner.type = "none" =>
               /\ last_run'.caught = NoException
               /\ calls'[Len(calls')][2] = 0
               /\ pc' \in {"build", "test", "set_progress"}
               /\ outcome' = "PENDING"]_vars

\* C16 witness: the build script of a date exited 1; main() has caught the
\* RunException of that script, with its streams and its code.
C16_Witness ==
    /\ pc = "advance"
    /\ outcome = "FAILED"
    /\ last_run.stage = "build"
    /\ last_run.inner = RunException(ScriptPath(<<current_date, BuildName>>), 1)
    /\ last_run.caught = last_run.inner

\* C17 as stated: configure and build run in the build subdirectory, test in
\* build/packages/tpetra, and a build subdirectory that existed before
\* configure exists when the configure script starts.
C17_StageDirectories ==
    [][StageInvoked =>
         /\ pc \in {"configure", "build"} => last_run'.cwd = "work_dir/build"
         /\ pc = "test" => last_run'.cwd = "work_dir/build/packages/tpetra"
         /\ (pc = "configure" /\ last_run'.had_build) =>
               last_run'.has_build]_vars

\* C17, amended: configure runs in the workspace itself, build in its build
\* subdirectory, test in build/packages/tpetra; configure's clean-up removes
\* the whole build subdirectory, so none exists when the configure script
\* starts, whether or not one existed before; the build script runs only if
\* the directory has been made since, and otherwise main() ends with an
\* error that is no process failure.
C17_StageDirectoriesOfCode ==
    [][/\ StageInvoked =>
            /\ pc = "configure" =>
                  /\ last_run'.cwd = "work_dir"
                  /\ ~last_run'.has_build
            /\ pc = "build" =>
                  /\ last_run'.cwd = "work_dir/build"
                  /\ build_exists
            /\ pc = "test" => last_run'.cwd = "work_dir/build/packages/tpetra"
       /\ (pc = "build" /\ ~build_exists) =>
            /\ pc' = "idle"
            /\ exc' \in {"FileNotFoundError: cwd", "KeyboardInterrupt"}]_vars

\* C17 witness: configure has run for a date when a build subdirectory
\* existed; it ran in the workspace, with the subdirectory removed.
C17_Witness ==
    /\ last_run.stage = "configure"
    /\ last_run.had_build
    /\ ~last_run.has_build
    /\ last_run.cwd = "work_dir"

\* the part of C5 that is about one entry of the loop body
C5_OrderingWithinVisit ==
    [][/\ LET st == StagePart(calls')
          IN /\ Len(st) <= Len(StageOrder)
             /\ \A i \in 1..Len(st) :
                   /\ st[i][1] = StageOrder[i][1]
                   /\ i < Len(st) => st[i][2] = 0
             /\ st # <<>> => SubSeq(calls', 1, 2) = Preamble
       /\ (StageInvoked \/ Marked) =>
             /\ outcome = "PENDING"
             /\ visited[Len(visited)] = current_date
             /\ ~Done(commit_hash)
       /\ (Len(visited') > Len(visited) /\ visited # <<>>) =>
             outcome \in {"SKIPPED", "COMPLETED", "FAILED"}
       /\ DatesOnly => NoDuplicates(visited')
       /\ (pc = "update" /\ StageInvoked /\ DatesOnly) =>
             <<current_date, UpdateName, ".out">> \notin out_files]_vars

\* this step is the cursor's move at the end of an iteration
Moves == pc = "advance" /\ pc' = "while"

\* one day from d in the direction of the first comparison of end_date with
\* start_date
WalkStep(d) ==
    IF date_gt(cfg.times, end_date, start_date) THEN d + 1 ELSE d - 1

\* C18: the cursor moves one day per iteration, in the direction that the
\* comparison of end_date with start_date gave, whatever the outcome of the
\* date.
C18_FixedDirection ==
    [][Moves => current_date' = WalkStep(current_date)]_vars

\* the part of C18 that holds: for dates without a time the direction is
\* that of the first comparison
C18_FixedDirectionForDates ==
    [][(Moves /\ DatesOnly) => current_date' = WalkStep(current_date)]_vars

\* twice the time from the cursor to end_date, in days; the end of two
\* datetimes is half a day (some part of a day) after its midnight
HalfDays(times, end, cur) ==
    LET e == 2 * end + (IF times = "datetimes" THEN 1 ELSE 0)
    IN IF e >= 2 * cur THEN e - 2 * cur ELSE 2 * cur - e

\* C19: every iteration, failed or not, brings the cursor one day nearer to
\* end_date, and the cursor stays between start_date and end_date; so the
\* loop ends.
C19_DistanceDecreases ==
    [][Moves =>
         /\ HalfDays(cfg.times, end_date, current_date')
               = HalfDays(cfg.times, end_date, current_date) - 2
         /\ IF date_gt(cfg.times, end_date, start_date)
            THEN current_date' <= end_date
            ELSE current_date' >= end_date]_vars

\* the part of C19 that holds: for dates without a time the distance falls
\* by a day per iteration and the cursor does not pass end_date
C19_DistanceDecreasesForDates ==
    [][(Moves /\ DatesOnly) =>
         /\ HalfDays(cfg.times, end_date, current_date')
               = HalfDays(cfg.times, end_date, current_date) - 2
         /\ IF end_date > start_date
            THEN current_date' <= end_date
            ELSE current_date' >= end_date]_vars

\* the commit that date d resolves to when the three git commands exit 0
ResolvedAt(d) == last_commit_before_end_of(origin, d, 0, 0, 0).value

\* the dates entered before the current one in this process for which
\* update ran and which resolve to the commit of the current date
EarlierAttempts ==
    {visited[i] : i \in 1..(Len(visited) - 1)} \cap
    {d \in 0..(MaxDate + 1) :
        /\ d # current_date
        /\ <<d, UpdateName, ".out">> \in out_files
        /\ ResolvedAt(d) = commit_hash}

\* the progress check returns (it does not raise)
Checked == pc = "get_progress" /\ pc' # "idle"

\* C20: the progress check looks at the commit only: a commit that is not
\* done gets the pipeline from update on, at every date of the sweep that
\* resolves to it, also when an earlier date of the sweep has run it and
\* failed; a commit that is done gets no stage at any later date. Each stage
\* runs at most once per entry of the loop body.
C20_RetryUntilDone ==
    [][/\ Checked =>
            IF Done(commit_hash)
            THEN pc' = "advance" /\ outcome' = "SKIPPED"
            ELSE pc' = "update" /\ outcome' = "PENDING"
       /\ (Checked /\ EarlierAttempts # {}) =>
            pc' = IF Done(commit_hash) THEN "advance" ELSE "update"
       /\ StageInvoked =>
            /\ ~Done(commit_hash)
            /\ \A i \in 1..Len(calls) : calls[i][1] # calls'[Len(calls')][1]
       /\ (pc = "update" /\ StageInvoked) => calls = Preamble]_vars

\* C20 witness: the second date of a sweep resolves to the commit of the
\* first, whose pipeline ran and did not complete; update has run again and
\* configure is next.
C20_Witness ==
    /\ pc = "configure"
    /\ Len(visited) = 2
    /\ commit_hash \in Shas
    /\ EarlierAttempts # {}
    /\ ~Done(commit_hash)
====
